---- MODULE Spec2Model ----
(***************************************************************************)
(* A model of python_frank_energie/frank_energie.py: the GraphQL query     *)
(* object and its redaction helper, the FrankEnergie client (session       *)
(* handle, credentials), the request pipeline _query, the error classifier *)
(* _handle_errors and the operation methods built on them.                 *)
(*                                                                         *)
(* Python values are modelled as follows.  None is the record None; a dict *)
(* is a function whose domain is its key set; a list is the record         *)
(* List(items).  A string that the code formats or tests by prefix is a    *)
(* sequence of chunks, so that str.startswith is a real prefix test and == *)
(* is equality of the whole string.  An exception is named by its class;   *)
(* the except clauses of _query are matched in source order against the    *)
(* class's bases.                                                          *)
(***************************************************************************)
EXTENDS FiniteSets, Integers, Sequences, TLC

VARIABLES
    _session,        \* FrankEnergie._session: None or a ClientSession
    _close_session,  \* FrankEnergie._close_session
    _auth,           \* FrankEnergie._auth: None or an Authentication
    sessions,        \* every ClientSession that exists, with its state
    calls,           \* the calls on the client: idle, awaiting the POST, done
    response,        \* classifier run: the dict handed to _handle_errors
    outcome,         \* classifier run: what _handle_errors did with it
    heap,            \* query objects: the dict objects, by address
    query,           \* query objects: the FrankEnergieQuery under test
    sanitized,       \* query objects: what sanitize_query returned
    payload          \* query objects: what the latest to_dict() returned

clientVars == <<_session, _close_session, _auth, sessions, calls>>
errorVars == <<response, outcome>>
queryVars == <<heap, query, sanitized, payload>>
vars == <<_session, _close_session, _auth, sessions, calls,
          response, outcome, heap, query, sanitized, payload>>

(***************************************************************************)
(* Bounds of the model.                                                    *)
(***************************************************************************)
\* longest errors array handed to the classifier and to the pipeline
MaxErrors == 2
\* longest errors array in a response to an operation method
MaxOpErrors == 1
\* coroutines of one client that may be suspended at the same time
MaxCalls == 2

(***************************************************************************)
(* Python and JSON values.                                                 *)
(***************************************************************************)
None == [type |-> "NoneType"]
NULL == "None"
EmptyDict == [k \in {} |-> NULL]
Pending == "pending"

\* dict.update(other): the keys of other win
update(d, other) ==
    [k \in DOMAIN d \cup DOMAIN other |-> IF k \in DOMAIN other THEN other[k] ELSE d[k]]

\* str.startswith on chunked strings
startswith(s, prefix) ==
    Len(s) >= Len(prefix) /\ SubSeq(s, 1, Len(prefix)) = prefix

List(items) == [type |-> "list", items |-> items]
IsList(v) == "type" \in DOMAIN v /\ v["type"] = "list"

\* Python truthiness of None, a dict or a list: None, {} and [] are falsy
truthy(v) ==
    IF v = None THEN FALSE
    ELSE IF IsList(v) THEN v.items # <<>>
    ELSE v # EmptyDict

\* dict.get(key): the value, or None
get(d, key) == IF key \in DOMAIN d THEN d[key] ELSE None

(***************************************************************************)
(* Exceptions.  Bases(cls) is the set of classes an except clause naming   *)
(* one of them catches.  aiohttp.ClientResponseError derives from          *)
(* aiohttp.ClientError; the library's own exceptions derive from           *)
(* FrankEnergieException.                                                  *)
(***************************************************************************)
NoExc == "none"

Bases(cls) ==
    CASE cls = "ClientResponseError" -> {"ClientResponseError", "ClientError", "Exception"}
      [] cls = "ClientConnectionError" -> {"ClientConnectionError", "ClientError", "Exception"}
      [] cls = "TimeoutError" -> {"TimeoutError", "Exception"}
      [] cls = "KeyError" -> {"KeyError", "LookupError", "Exception"}
      [] cls \in {"AuthException", "AuthRequiredException", "RequestException",
                  "NetworkError", "SmartTradingNotEnabledException",
                  "SmartChargingNotEnabledException"}
            -> {cls, "FrankEnergieException", "Exception"}
      [] OTHER -> {cls, "Exception"}

\* except (A, B, ...): does the clause catch an exception of class cls
catches(clause, cls) == clause \cap Bases(cls) # {}

(***************************************************************************)
(* The GraphQL error messages _handle_errors knows.                        *)
(***************************************************************************)
PasswordInvalid == <<"user-error:password-invalid">>
AuthNotAuthorised == <<"user-error:auth-not-authorised">>
AuthRequired == <<"user-error:auth-required">>
GraphqlValidation == <<"Graphql validation error">>
NoMarketprices == <<"No marketprices found for segment">>
NoConnections == <<"No connections found for user">>
SmartTradingNotEnabled == <<"user-error:smart-trading-not-enabled">>
SmartChargingNotEnabled == <<"user-error:smart-charging-not-enabled">>
BaseNietAanwezig == <<"'Base' niet aanwezig in prijzen verzameling">>
NotSupportedInCountry == <<"request-error:request-not-supported-in-country">>

\* the messages a response may carry: the table's, the two prefixes with a
\* tail, a table message with a tail (no exact match) and an unknown one
Messages ==
    { PasswordInvalid, AuthNotAuthorised, AuthRequired, GraphqlValidation,
      NoMarketprices, NoConnections, SmartTradingNotEnabled,
      SmartChargingNotEnabled, BaseNietAanwezig, NotSupportedInCountry,
      NoMarketprices \o <<" 1">>, NoConnections \o <<" u">>,
      AuthRequired \o <<" again">>, <<"some-other-error">> }

\* an entry of the errors array: a dict with a message, or one without
ErrorEntries == {[message |-> m] : m \in Messages} \cup {EmptyDict}

SeqsUpTo(S, n) == UNION {[1..k -> S] : k \in 0..n}

(***************************************************************************)
(* FrankEnergie._handle_errors.  The result is the class of the exception  *)
(* that leaves the method, or NoExc when it returns.                       *)
(***************************************************************************)
\* the if/elif chain on one message: "raise", "return" or "continue"
match_message(message) ==
    IF message = PasswordInvalid THEN [do |-> "raise", exc |-> "AuthException"]
    ELSE IF message = AuthNotAuthorised THEN [do |-> "raise", exc |-> "AuthException"]
    ELSE IF message = AuthRequired THEN [do |-> "raise", exc |-> "AuthRequiredException"]
    ELSE IF message = GraphqlValidation THEN [do |-> "raise", exc |-> "AuthException"]
    ELSE IF startswith(message, NoMarketprices) THEN [do |-> "return", exc |-> NoExc]
    ELSE IF startswith(message, NoConnections) THEN [do |-> "raise", exc |-> "AuthException"]
    ELSE IF message = SmartTradingNotEnabled
      THEN [do |-> "raise", exc |-> "SmartTradingNotEnabledException"]
    ELSE IF message = SmartChargingNotEnabled
      THEN [do |-> "raise", exc |-> "SmartChargingNotEnabledException"]
    ELSE IF message = BaseNietAanwezig THEN [do |-> "continue", exc |-> NoExc]
    ELSE IF message = NotSupportedInCountry THEN [do |-> "raise", exc |-> "AuthException"]
    ELSE [do |-> "continue", exc |-> NoExc]

\* faulty variant, for comparison: the 'Base' branch returns instead of falling through to the next entry
handle_error_base_returns(error) ==
    IF "message" \notin DOMAIN error THEN [do |-> "raise", exc |-> "KeyError"]
    ELSE IF error["message"] = BaseNietAanwezig THEN [do |-> "return", exc |-> NoExc]
    ELSE match_message(error["message"])

\* faulty variant, for comparison: an unrecognized message raises instead of being logged
handle_error_strict(error) ==
    IF "message" \notin DOMAIN error THEN [do |-> "raise", exc |-> "KeyError"]
    ELSE LET step == match_message(error["message"]) IN
         IF step.do = "continue" /\ error["message"] # BaseNietAanwezig
         THEN [do |-> "raise", exc |-> "AuthException"]
         ELSE step

\* one turn of the for loop; error["message"] raises KeyError without the key
handle_error(error) ==
    IF "message" \notin DOMAIN error THEN [do |-> "raise", exc |-> "KeyError"]
    ELSE match_message(error["message"])

RECURSIVE for_error_in(_, _)
for_error_in(errors, i) ==
    IF i > Len(errors) THEN NoExc
    ELSE LET step == handle_error(errors[i]) IN
      IF step.do = "continue" THEN for_error_in(errors, i + 1) ELSE step.exc

_handle_errors(resp) ==
    IF ~truthy(resp) THEN NoExc
    ELSE LET errors == get(resp, "errors") IN
      IF ~truthy(errors) THEN NoExc ELSE for_error_in(errors.items, 1)

(***************************************************************************)
(* What the transport may answer to one POST: a timeout, a connection      *)
(* error, or an HTTP response with a status and a body.                    *)
(***************************************************************************)
Absent == [type |-> "absent"]
Malformed == [type |-> "malformed"]
Payload == [type |-> "payload"]

\* the members of http.HTTPStatus that _query names
BAD_REQUEST == 400
UNAUTHORIZED == 401
FORBIDDEN == 403
INTERNAL_SERVER_ERROR == 500

\* the statuses raise_for_status raises for, among them one _query does not name
ErrorStatuses == {BAD_REQUEST, UNAUTHORIZED, FORBIDDEN, 404, INTERNAL_SERVER_ERROR}

\* a status below 400 that is not a 2xx and that the transport hands over as it
\* is (Not Modified): raise_for_status raises for 400 and above only
PassedStatuses == {304}

TokenPair(a, r) == [authToken |-> a, refreshToken |-> r]

\* the data member of a response body
LoginData == [login |-> TokenPair("A", "R")]
RenewData == [renewToken |-> TokenPair("C", "T")]
OtherRenewData == [renewToken |-> TokenPair("D", "U")]
FullData ==
    [enodeChargers |-> Payload, smartBatteries |-> Payload,
     smartBattery |-> Payload, smartBatterySummary |-> Payload]
PartialData == [smartBattery |-> Payload, smartBatteries |-> List(<<>>)]

\* a response body with the given data and errors members (Absent: no such key)
Envelope(data, errors) ==
    update(IF data = Absent THEN EmptyDict ELSE [data |-> data],
           IF errors = Absent THEN EmptyDict ELSE [errors |-> errors])

ErrorArrays(n) == {Absent, None} \cup {List(s) : s \in SeqsUpTo(ErrorEntries, n)}

Envelopes(datas, n) == {Envelope(d, e) : d \in datas, e \in ErrorArrays(n)}

Replies(datas, n) ==
    {[kind |-> "timeout"], [kind |-> "error"]}
    \cup {[kind |-> "http", status |-> st, body |-> None] : st \in ErrorStatuses}
    \cup {[kind |-> "http", status |-> 200, body |-> b] :
            b \in {None, Malformed} \cup Envelopes(datas, n)}
    \cup {[kind |-> "http", status |-> st, body |-> b] :
            st \in PassedStatuses,
            b \in {None, Envelope(Absent, List(<<[message |-> AuthRequired]>>))}}

\* the answers to a direct use of the request pipeline
QueryReplies == Replies({Absent, None, FullData}, MaxErrors)

\* the answers to an operation method
OpReplies ==
    Replies({Absent, None, EmptyDict, LoginData, RenewData, FullData, PartialData},
            MaxOpErrors)

(***************************************************************************)
(* Authentication (authentication.py) and the result models (models.py).   *)
(***************************************************************************)
Authentication(authToken, refreshToken) ==
    [type |-> "Authentication", authToken |-> authToken, refreshToken |-> refreshToken]

\* Authentication.from_dict: the credentials of a login or renewal response
Authentication_from_dict(resp) ==
    LET data == get(resp, "data")
        tokens == IF ~truthy(data) THEN None
                  ELSE IF "login" \in DOMAIN data THEN data["login"]
                  ELSE IF "renewToken" \in DOMAIN data THEN data["renewToken"]
                  ELSE None
    IN IF tokens = None
       THEN [exc |-> "AuthException", value |-> None]
       ELSE [exc |-> NoExc,
             value |-> Authentication(tokens.authToken, tokens.refreshToken)]

\* how a model's from_dict may end: with its object, or raising
Deser == {"ok", "KeyError", "AttributeError"}

from_dict(type, deser) ==
    IF deser = "ok" THEN [exc |-> NoExc, value |-> [type |-> type]]
    ELSE [exc |-> deser, value |-> None]

(***************************************************************************)
(* FrankEnergieQuery.                                                      *)
(***************************************************************************)
\* FrankEnergieQuery.__init__ for a dict or no variables; the object keeps the
\* dict it is given (in the client, where nothing writes to it, by value)
FrankEnergieQuery(text, operation_name, variables) ==
    [query |-> text, operation_name |-> operation_name,
     variables |-> IF variables = None THEN EmptyDict ELSE variables]

to_dict(q) ==
    [query |-> q.query, operationName |-> q.operation_name, variables |-> q.variables]

(***************************************************************************)
(* The client.                                                             *)
(***************************************************************************)
CallIds == 1..MaxCalls

Idle == [pc |-> "idle"]

\* the number of calls started plus the number of calls ended: a call record
\* keeps its value from when the call started and from when it ended, the
\* order in which the event loop ran the steps of overlapping calls
clock ==
    Cardinality({c \in CallIds : calls[c].pc # "idle"})
    + Cardinality({c \in CallIds : calls[c].pc = "done"})

ClientSession(id) == [type |-> "ClientSession", id |-> id]

is_authenticated == _auth # None /\ _auth.authToken # NULL

\* FrankEnergie.__init__; a string argument is falsy when None or empty
__init__(clientsession, auth_token, refresh_token) ==
    /\ _session = clientsession
    /\ _close_session = (clientsession = None)
    /\ _auth = IF auth_token \notin {NULL, ""} \/ refresh_token \notin {NULL, ""}
               THEN Authentication(auth_token, refresh_token)
               ELSE None
    /\ sessions = IF clientsession = None THEN {}
                  ELSE {[id |-> clientsession.id, by |-> "caller", closed |-> FALSE]}
    /\ calls = [c \in CallIds |-> Idle]

\* faulty variant, for comparison: a session is created without the check
_ensure_session_unchecked ==
    LET s == ClientSession(Cardinality(sessions)) IN
    [_session |-> s, _close_session |-> TRUE,
     sessions |-> sessions \cup {[id |-> s.id, by |-> "client", closed |-> FALSE]}]

\* _ensure_session: the handle and the flag after the call, and the sessions
\* that exist then
_ensure_session ==
    IF _session = None
    THEN LET s == ClientSession(Cardinality(sessions)) IN
         [_session |-> s, _close_session |-> TRUE,
          sessions |-> sessions \cup {[id |-> s.id, by |-> "client", closed |-> FALSE]}]
    ELSE [_session |-> _session, _close_session |-> _close_session,
          sessions |-> sessions]

Bearer(token) == <<"Bearer ", token>>
ApplicationJson == <<"application/json">>

\* faulty variant, for comparison: the caller's headers are applied first, so the client's own win
request_headers_extra_first(extra_headers) ==
    LET headers == [k \in {"Content-Type", "Accept"} |-> ApplicationJson]
        extras == IF truthy(extra_headers) THEN update(extra_headers, headers) ELSE headers
    IN IF _auth # None /\ _auth.authToken # NULL
       THEN update(extras, [Authorization |-> Bearer(_auth.authToken)])
       ELSE extras

\* the headers _query composes
request_headers(extra_headers) ==
    LET headers == [k \in {"Content-Type", "Accept"} |-> ApplicationJson]
        authed == IF _auth # None /\ _auth.authToken # NULL
                  THEN update(headers, [Authorization |-> Bearer(_auth.authToken)])
                  ELSE headers
    IN IF truthy(extra_headers) THEN update(authed, extra_headers) ELSE authed

\* a call that ends before it reaches _query
finish(c, op, args, exc, value) ==
    /\ calls' = [calls EXCEPT ![c] =
                   [pc |-> "done", op |-> op, args |-> args, posted |-> FALSE,
                    posts |-> 0, headers |-> None, json |-> None, reply |-> None,
                    exc |-> exc, value |-> value, before |-> _auth,
                    started |-> clock, ended |-> clock + 1]]
    /\ UNCHANGED <<_session, _close_session, _auth, sessions, errorVars, queryVars>>

\* _query up to its suspension: headers, session, payload, POST.  posts counts
\* the POSTs of the call: the method has one post and no loop around it.  The
\* await of _ensure_session does not suspend (the coroutine awaits nothing),
\* and after the post has suspended _query touches no field of the client, so
\* its later awaits (the body, leaving the response) are one step with it.
_query(c, op, args, q, extra_headers) ==
    LET ensured == _ensure_session IN
    /\ _session' = ensured._session
    /\ _close_session' = ensured._close_session
    /\ sessions' = ensured.sessions
    /\ calls' = [calls EXCEPT ![c] =
                   [pc |-> "awaiting", op |-> op, args |-> args,
                    headers |-> request_headers(extra_headers),
                    json |-> to_dict(q), session |-> ensured._session.id,
                    posts |-> 1, before |-> _auth, started |-> clock]]
    /\ UNCHANGED <<_auth, errorVars, queryVars>>

\* faulty variant, for comparison: one clause that turns every exception into NetworkError
query_except_all_network(exc, status) == "NetworkError"

\* faulty variant, for comparison: the clause for transport failures is missing
query_except_no_network_clause(exc, status) ==
    IF catches({"ClientResponseError"}, exc)
    THEN IF status = UNAUTHORIZED THEN "AuthRequiredException"
         ELSE IF status = BAD_REQUEST THEN "RequestException"
         ELSE "AuthException"
    ELSE exc

\* the except clauses of _query, in source order
query_except(exc, status) ==
    IF catches({"TimeoutError", "ClientError", "KeyError"}, exc) THEN "NetworkError"
    ELSE IF catches({"ClientResponseError"}, exc)
    THEN IF status = UNAUTHORIZED THEN "AuthRequiredException"
         ELSE IF status = FORBIDDEN THEN "AuthException"
         ELSE IF status = BAD_REQUEST THEN "RequestException"
         ELSE IF status = INTERNAL_SERVER_ERROR THEN "AuthException"
         ELSE "AuthException"
    ELSE exc

\* faulty variant, for comparison: the classifier runs before the empty-body check
query_resume_classifies_first(reply) ==
    LET raised(exc, parsed, classified) ==
            [exc |-> query_except(exc, IF reply.kind = "http" THEN reply.status ELSE 0),
             value |-> None, parsed |-> parsed, classified |-> classified]
    IN IF reply.kind = "timeout" THEN raised("TimeoutError", FALSE, FALSE)
       ELSE IF reply.kind = "error" THEN raised("ClientConnectionError", FALSE, FALSE)
       ELSE IF reply.status >= 400 THEN raised("ClientResponseError", FALSE, FALSE)
       ELSE IF reply.body = Malformed THEN raised("JSONDecodeError", FALSE, FALSE)
       ELSE LET exc == _handle_errors(reply.body) IN
            IF exc # NoExc THEN raised(exc, TRUE, TRUE)
            ELSE IF ~truthy(reply.body)
            THEN [exc |-> NoExc, value |-> EmptyDict, parsed |-> TRUE, classified |-> TRUE]
            ELSE [exc |-> NoExc, value |-> reply.body, parsed |-> TRUE, classified |-> TRUE]

\* _query from the answer to its POST on: the exception that leaves it or the
\* dict it returns, and whether the body was parsed and classified
query_resume(reply) ==
    LET raised(exc, parsed, classified) ==
            [exc |-> query_except(exc, IF reply.kind = "http" THEN reply.status ELSE 0),
             value |-> None, parsed |-> parsed, classified |-> classified]
    IN IF reply.kind = "timeout" THEN raised("TimeoutError", FALSE, FALSE)
       ELSE IF reply.kind = "error" THEN raised("ClientConnectionError", FALSE, FALSE)
       ELSE IF reply.status >= 400 THEN raised("ClientResponseError", FALSE, FALSE)
       ELSE IF reply.body = Malformed THEN raised("JSONDecodeError", FALSE, FALSE)
       ELSE IF ~truthy(reply.body)
       THEN [exc |-> NoExc, value |-> EmptyDict, parsed |-> TRUE, classified |-> FALSE]
       ELSE LET exc == _handle_errors(reply.body) IN
            IF exc # NoExc THEN raised(exc, TRUE, TRUE)
            ELSE [exc |-> NoExc, value |-> reply.body, parsed |-> TRUE, classified |-> TRUE]

(***************************************************************************)
(* The operation methods.  Each is an action that runs the method from its *)
(* call to its first suspension (the POST inside _query) or, when a check  *)
(* fails first, to its end; <op>_resume is the rest of the method, from    *)
(* the return of _query on: the exception or value it ends with and the    *)
(* credentials it leaves.                                                  *)
(***************************************************************************)
free(c) == calls[c].pc = "idle"

returns(value) == [exc |-> NoExc, value |-> value, auth |-> _auth]
raises(exc) == [exc |-> exc, value |-> None, auth |-> _auth]

\* response = await self._query(query); return Model.from_dict(response)
plain_resume(q, type, deser) ==
    IF q.exc # NoExc THEN raises(q.exc)
    ELSE LET m == from_dict(type, deser) IN
         IF m.exc # NoExc THEN raises(m.exc) ELSE returns(m.value)

login(c, username, password) ==
    LET args == [username |-> username, password |-> password] IN
    /\ free(c)
    /\ IF username = "" \/ password = ""
       THEN finish(c, "login", args, "ValueError", None)
       ELSE _query(c, "login", args,
                   FrankEnergieQuery("LOGIN_QUERY", "Login",
                                     [email |-> username, password |-> password]),
                   None)

\* faulty variant, for comparison: the credentials of the response are returned but not stored
login_resume_not_stored(q) ==
    IF q.exc # NoExc THEN raises(q.exc)
    ELSE IF "data" \notin DOMAIN q.value THEN raises("KeyError")
    ELSE IF q.value["data"] = None THEN returns(_auth)
    ELSE LET a == Authentication_from_dict(q.value) IN
         IF a.exc # NoExc THEN raises(a.exc) ELSE returns(a.value)

\* faulty variant, for comparison: a failed login drops the stored credentials
login_resume_clears_on_failure(q) ==
    IF q.exc # NoExc THEN [exc |-> q.exc, value |-> None, auth |-> None]
    ELSE IF "data" \notin DOMAIN q.value THEN raises("KeyError")
    ELSE IF q.value["data"] = None THEN returns(_auth)
    ELSE LET a == Authentication_from_dict(q.value) IN
         IF a.exc # NoExc THEN raises(a.exc)
         ELSE [exc |-> NoExc, value |-> a.value, auth |-> a.value]

login_resume(q) ==
    IF q.exc # NoExc THEN raises(q.exc)
    ELSE IF "data" \notin DOMAIN q.value THEN raises("KeyError")
    ELSE IF q.value["data"] = None THEN returns(_auth)
    ELSE LET a == Authentication_from_dict(q.value) IN
         IF a.exc # NoExc THEN raises(a.exc)
         ELSE [exc |-> NoExc, value |-> a.value, auth |-> a.value]

renew_token(c) ==
    /\ free(c)
    /\ IF _auth = None \/ ~is_authenticated
       THEN finish(c, "renew_token", EmptyDict, "AuthRequiredException", None)
       ELSE _query(c, "renew_token", EmptyDict,
                   FrankEnergieQuery("RenewToken", "RenewToken",
                                     [authToken |-> _auth.authToken,
                                      refreshToken |-> _auth.refreshToken]),
                   None)

\* faulty variant, for comparison: the renewed credentials are returned but not stored
renew_token_resume_not_stored(q) ==
    IF q.exc # NoExc THEN raises(q.exc)
    ELSE LET a == Authentication_from_dict(q.value) IN
         IF a.exc # NoExc THEN raises(a.exc) ELSE returns(a.value)

renew_token_resume(q) ==
    IF q.exc # NoExc THEN raises(q.exc)
    ELSE LET a == Authentication_from_dict(q.value) IN
         IF a.exc # NoExc THEN raises(a.exc)
         ELSE [exc |-> NoExc, value |-> a.value, auth |-> a.value]

meter_readings(c, site_reference) ==
    LET args == [site_reference |-> site_reference] IN
    /\ free(c)
    /\ IF _auth = None \/ ~is_authenticated
       THEN finish(c, "meter_readings", args, "AuthRequiredException", None)
       ELSE _query(c, "meter_readings", args,
                   FrankEnergieQuery("ActualAndExpectedMeterReadings",
                                     "ActualAndExpectedMeterReadings",
                                     [siteReference |-> site_reference]),
                   None)

meter_readings_resume(q, deser) == plain_resume(q, "EnergyConsumption", deser)

month_summary(c, site_reference) ==
    LET args == [site_reference |-> site_reference] IN
    /\ free(c)
    /\ IF _auth = None \/ ~is_authenticated
       THEN finish(c, "month_summary", args, "AuthRequiredException", None)
       ELSE _query(c, "month_summary", args,
                   FrankEnergieQuery("MonthSummary", "MonthSummary",
                                     [siteReference |-> site_reference]),
                   None)

month_summary_resume(q, deser) ==
    LET r == plain_resume(q, "MonthSummary", deser) IN
    IF r.exc # NoExc THEN raises("AuthException") ELSE r

enode_chargers(c, site_reference) ==
    LET args == [site_reference |-> site_reference] IN
    /\ free(c)
    /\ IF _auth = None \/ ~is_authenticated
       THEN finish(c, "enode_chargers", args, NoExc, EmptyDict)
       ELSE _query(c, "enode_chargers", args,
                   FrankEnergieQuery("EnodeChargers", "EnodeChargers",
                                     [siteReference |-> site_reference]),
                   None)

enode_chargers_resume(q, deser) ==
    IF q.exc # NoExc THEN returns(EmptyDict)
    ELSE IF "data" \notin DOMAIN q.value THEN returns(EmptyDict)
    ELSE IF q.value["data"] = None THEN returns(EmptyDict)
    ELSE IF "enodeChargers" \notin DOMAIN q.value["data"] THEN returns(EmptyDict)
    ELSE LET m == from_dict("EnodeChargers", deser) IN
         IF m.exc # NoExc THEN returns(EmptyDict) ELSE returns(m.value)

invoices(c, site_reference) ==
    LET args == [site_reference |-> site_reference] IN
    /\ free(c)
    /\ IF _auth = None \/ ~is_authenticated
       THEN finish(c, "invoices", args, "AuthRequiredException", None)
       ELSE _query(c, "invoices", args,
                   FrankEnergieQuery("Invoices", "Invoices",
                                     [siteReference |-> site_reference]),
                   None)

invoices_resume(q, deser) == plain_resume(q, "Invoices", deser)

me(c, site_reference) ==
    LET args == [site_reference |-> site_reference] IN
    /\ free(c)
    /\ IF _auth = None
       THEN finish(c, "me", args, "AuthRequiredException", None)
       ELSE _query(c, "me", args,
                   FrankEnergieQuery("Me", "Me", [siteReference |-> site_reference]),
                   None)

me_resume(q, deser) == plain_resume(q, "Me", deser)

UserSites(c) ==
    /\ free(c)
    /\ IF _auth = None
       THEN finish(c, "UserSites", EmptyDict, "AuthRequiredException", None)
       ELSE _query(c, "UserSites", EmptyDict,
                   FrankEnergieQuery("UserSites", "UserSites", EmptyDict), None)

UserSites_resume(q, deser) == plain_resume(q, "UserSites", deser)

user_country(c) ==
    /\ free(c)
    /\ IF _auth = None
       THEN finish(c, "user_country", EmptyDict, "AuthRequiredException", None)
       ELSE _query(c, "user_country", EmptyDict,
                   FrankEnergieQuery("UserCountry", "UserCountry", EmptyDict), None)

user_country_resume(q, deser) == plain_resume(q, "Me", deser)

user(c, site_reference) ==
    LET args == [site_reference |-> site_reference] IN
    /\ free(c)
    /\ IF _auth = None
       THEN finish(c, "user", args, "AuthRequiredException", None)
       ELSE _query(c, "user", args,
                   FrankEnergieQuery("Me", "Me", [siteReference |-> site_reference]),
                   None)

user_resume(q, deser) == plain_resume(q, "User", deser)

be_prices(c, start_date) ==
    /\ free(c)
    /\ _query(c, "be_prices", [start_date |-> start_date],
              FrankEnergieQuery("MarketPrices", "MarketPrices", [date |-> start_date]),
              ("x-country" :> <<"BE">>))

be_prices_resume(q, deser) == plain_resume(q, "MarketPrices", deser)

prices(c, start_date, end_date) ==
    /\ free(c)
    /\ _query(c, "prices", [start_date |-> start_date, end_date |-> end_date],
              FrankEnergieQuery("MarketPrices", "MarketPrices",
                                [startDate |-> start_date, endDate |-> end_date]),
              None)

prices_resume(q, deser) == plain_resume(q, "MarketPrices", deser)

user_prices(c, site_reference, start_date) ==
    LET args == [site_reference |-> site_reference, start_date |-> start_date] IN
    /\ free(c)
    /\ IF _auth = None
       THEN finish(c, "user_prices", args, "AuthRequiredException", None)
       ELSE _query(c, "user_prices", args,
                   FrankEnergieQuery("MarketPrices", "MarketPrices",
                                     [date |-> start_date,
                                      siteReference |-> site_reference]),
                   None)

user_prices_resume(q, deser) == plain_resume(q, "MarketPrices", deser)

(***************************************************************************)
(* Date strings.  A start_date string is held as its groups between the    *)
(* '-' signs, each group a run of digits: how many digits and their value. *)
(***************************************************************************)
DateString(groups) == [i \in 1..Len(groups) |->
                         [digits |-> groups[i][1], value |-> groups[i][2]]]

\* re.fullmatch(r"\d{4}(-\d{2}){0,2}", start_date)
fullmatch(start_date) ==
    /\ Len(start_date) \in 1..3
    /\ start_date[1].digits = 4
    /\ \A i \in 2..Len(start_date) : start_date[i].digits = 2

\* the days of a month, as datetime.strptime(start_date, "%Y-%m-%d") has them
DaysIn(year, month) ==
    IF month \in {4, 6, 9, 11} THEN 30
    ELSE IF month # 2 THEN 31
    ELSE IF year % 4 = 0 /\ (year % 100 # 0 \/ year % 400 = 0) THEN 29
    ELSE 28

\* datetime.now(timezone.utc).date() at the time of the call
Today == <<2026, 11, 2>>

\* date_obj > today
after(d, today) ==
    \/ d[1] > today[1]
    \/ d[1] = today[1] /\ d[2] > today[2]
    \/ d[1] = today[1] /\ d[2] = today[2] /\ d[3] > today[3]

\* FrankEnergie._validate_start_date_format for a string: the exception it
\* raises, NoExc when it returns.  No method of the class calls it.
_validate_start_date_format(start_date) ==
    IF ~fullmatch(start_date) THEN "ValueError"
    ELSE IF Len(start_date) = 3
    THEN LET year == start_date[1].value
             month == start_date[2].value
             day == start_date[3].value
         IN IF year < 1 \/ month \notin 1..12 \/ day \notin 1..DaysIn(year, month)
            THEN "ValueError"
            ELSE IF after(<<year, month, day>>, Today) THEN "ValueError"
            ELSE NoExc
    ELSE NoExc

period_usage_and_costs(c, site_reference, start_date) ==
    LET args == [site_reference |-> site_reference, start_date |-> start_date] IN
    /\ free(c)
    /\ IF site_reference = ""
       THEN finish(c, "period_usage_and_costs", args, "ValueError", None)
       ELSE IF _auth = None
       THEN finish(c, "period_usage_and_costs", args, "AuthRequiredException", None)
       ELSE _query(c, "period_usage_and_costs", args,
                   FrankEnergieQuery("PeriodUsageAndCosts", "PeriodUsageAndCosts",
                                     [siteReference |-> site_reference,
                                      date |-> start_date]),
                   None)

period_usage_and_costs_resume(q, deser) ==
    LET r == plain_resume(q, "PeriodUsageAndCosts", deser) IN
    IF r.exc # NoExc THEN raises("AuthException") ELSE r

SmartBatteries(smart_batteries) ==
    [type |-> "SmartBatteries", smart_batteries |-> List(smart_batteries)]

smart_batteries(c) ==
    /\ free(c)
    /\ IF _auth = None
       THEN finish(c, "smart_batteries", EmptyDict, "AuthRequiredException", None)
       ELSE _query(c, "smart_batteries", EmptyDict,
                   FrankEnergieQuery("SmartBatteries", "SmartBatteries", None),
                   None)

smart_batteries_resume(q, deser) ==
    IF q.exc # NoExc THEN raises(q.exc)
    ELSE IF ~truthy(q.value) THEN returns(SmartBatteries(<<>>))
    ELSE IF truthy(get(q.value, "errors")) THEN returns(SmartBatteries(<<>>))
    ELSE IF ~truthy(get(q.value, "data")) THEN returns(SmartBatteries(<<>>))
    ELSE IF ~truthy(get(q.value["data"], "smartBatteries"))
    THEN returns(SmartBatteries(<<>>))
    ELSE LET m == from_dict("SmartBattery", deser) IN
         IF m.exc \in {"KeyError", "ValueError", "TypeError"}
         THEN returns(SmartBatteries(<<>>))
         ELSE IF m.exc # NoExc THEN raises(m.exc)
         ELSE returns(SmartBatteries(<<m.value>>))

smart_battery_details(c, device_id) ==
    LET args == [device_id |-> device_id] IN
    /\ free(c)
    /\ IF _auth = None
       THEN finish(c, "smart_battery_details", args, "AuthRequiredException", None)
       ELSE IF device_id = ""
       THEN finish(c, "smart_battery_details", args, "ValueError", None)
       ELSE _query(c, "smart_battery_details", args,
                   FrankEnergieQuery("SmartBattery", "SmartBattery",
                                     [deviceId |-> device_id]),
                   None)

smart_battery_details_resume(q, deser) ==
    IF q.exc # NoExc THEN raises(q.exc)
    ELSE IF "data" \notin DOMAIN q.value THEN raises("KeyError")
    ELSE IF q.value["data"] = None THEN raises("TypeError")
    ELSE IF \/ "smartBattery" \notin DOMAIN q.value["data"]
            \/ "smartBatterySummary" \notin DOMAIN q.value["data"]
    THEN raises("AuthException")
    ELSE LET m == from_dict("SmartBatteryDetails", deser) IN
         IF m.exc # NoExc THEN raises(m.exc) ELSE returns(m.value)

smart_battery_sessions(c, device_id, start_date, end_date) ==
    LET args == [device_id |-> device_id, start_date |-> start_date,
                 end_date |-> end_date] IN
    /\ free(c)
    /\ IF _auth = None
       THEN finish(c, "smart_battery_sessions", args, "AuthRequiredException", None)
       ELSE IF device_id = ""
       THEN finish(c, "smart_battery_sessions", args, "ValueError", None)
       ELSE _query(c, "smart_battery_sessions", args,
                   FrankEnergieQuery("SmartBatterySessions", "SmartBatterySessions",
                                     [deviceId |-> device_id, startDate |-> start_date,
                                      endDate |-> end_date]),
                   None)

smart_battery_sessions_resume(q, deser) == plain_resume(q, "SmartBatterySessions", deser)

\* the class defines no close: the attribute lookup raises, nothing is closed
close(c) ==
    /\ free(c)
    /\ finish(c, "close", EmptyDict, "AttributeError", None)

\* async with FrankEnergie(...) as client: ... ; __aexit__ awaits self.close()
__aexit__(c) ==
    /\ free(c)
    /\ finish(c, "__aexit__", EmptyDict, "AttributeError", None)

\* a caller of the request pipeline itself, with headers of its own
query_call(c, extra_headers) ==
    /\ free(c)
    /\ _query(c, "_query", [extra_headers |-> extra_headers],
              FrankEnergieQuery("Query", "Query", EmptyDict), extra_headers)

op_resume(op, q, deser) ==
    CASE op = "login" -> login_resume(q)
      [] op = "renew_token" -> renew_token_resume(q)
      [] op = "meter_readings" -> meter_readings_resume(q, deser)
      [] op = "month_summary" -> month_summary_resume(q, deser)
      [] op = "enode_chargers" -> enode_chargers_resume(q, deser)
      [] op = "invoices" -> invoices_resume(q, deser)
      [] op = "me" -> me_resume(q, deser)
      [] op = "UserSites" -> UserSites_resume(q, deser)
      [] op = "user_country" -> user_country_resume(q, deser)
      [] op = "user" -> user_resume(q, deser)
      [] op = "be_prices" -> be_prices_resume(q, deser)
      [] op = "prices" -> prices_resume(q, deser)
      [] op = "user_prices" -> user_prices_resume(q, deser)
      [] op = "period_usage_and_costs" -> period_usage_and_costs_resume(q, deser)
      [] op = "smart_batteries" -> smart_batteries_resume(q, deser)
      [] op = "smart_battery_details" -> smart_battery_details_resume(q, deser)
      [] op = "smart_battery_sessions" -> smart_battery_sessions_resume(q, deser)
      [] op = "_query" -> IF q.exc # NoExc THEN raises(q.exc) ELSE returns(q.value)

\* the answer to the POST arrives: _query and then the method run to their end
resume(c, reply, deser) ==
    /\ LET q == query_resume(reply)
           r == op_resume(calls[c].op, q, deser)
       IN /\ _auth' = r.auth
          /\ calls' = [calls EXCEPT ![c] =
                         [pc |-> "done", op |-> calls[c].op, args |-> calls[c].args,
                          posted |-> TRUE, posts |-> calls[c].posts,
                          headers |-> calls[c].headers,
                          json |-> calls[c].json, reply |-> reply, q |-> q,
                          exc |-> r.exc, value |-> r.value,
                          before |-> calls[c].before, session |-> calls[c].session,
                          started |-> calls[c].started, ended |-> clock]]
    /\ UNCHANGED <<_session, _close_session, sessions, errorVars, queryVars>>

\* the caller takes the value or the exception its call ended with
collect(c) ==
    /\ calls[c].pc = "done"
    /\ calls' = [calls EXCEPT ![c] = Idle]
    /\ UNCHANGED <<_session, _close_session, _auth, sessions, errorVars, queryVars>>

(***************************************************************************)
(* The specifications.                                                     *)
(***************************************************************************)
\* the arguments the callers pass
Usernames == {"", "u"}
Passwords == {"", "p"}
SiteReferences == {"", "site"}
DeviceIds == {"", "device"}
Dates == {"2024-01-01"}
\* 2024-01-01 and 2024-01; 01-01-2024, 2024-13-01 and a date in the future
StartDates ==
    {DateString(<<<<4, 2024>>, <<2, 1>>, <<2, 1>>>>),
     DateString(<<<<4, 2024>>, <<2, 1>>>>),
     DateString(<<<<2, 1>>, <<2, 1>>, <<4, 2024>>>>),
     DateString(<<<<4, 2024>>, <<2, 13>>, <<2, 1>>>>),
     DateString(<<<<4, 2999>>, <<2, 1>>, <<2, 1>>>>)}
AuthTokens == {NULL, "B"}
RefreshTokens == {NULL, "S"}
ClientSessions == {None, ClientSession(0)}
ExtraHeaders ==
    {None, EmptyDict, ("x-country" :> <<"BE">>), ("Authorization" :> Bearer("X")),
     ("Content-Type" :> <<"text/plain">>)}

NoClassifierRun == response = None /\ outcome = Pending
NoQueryObjects == heap = EmptyDict /\ query = None /\ sanitized = None /\ payload = None

\* a client as its constructor leaves it
Init ==
    /\ \E clientsession \in ClientSessions, auth_token \in AuthTokens,
          refresh_token \in RefreshTokens :
         __init__(clientsession, auth_token, refresh_token)
    /\ NoClassifierRun
    /\ NoQueryObjects

\* one caller, who awaits each operation before starting the next
Next ==
    \/ \E username \in Usernames, password \in Passwords : login(1, username, password)
    \/ renew_token(1)
    \/ meter_readings(1, "site")
    \/ month_summary(1, "site")
    \/ enode_chargers(1, "site")
    \/ invoices(1, "site")
    \/ me(1, "site")
    \/ UserSites(1)
    \/ user_country(1)
    \/ user(1, "site")
    \/ \E start_date \in Dates : be_prices(1, start_date)
    \/ \E start_date \in Dates : prices(1, start_date, start_date)
    \/ \E start_date \in Dates : user_prices(1, "site", start_date)
    \/ \E site_reference \in SiteReferences, start_date \in StartDates :
          period_usage_and_costs(1, site_reference, start_date)
    \/ smart_batteries(1)
    \/ \E device_id \in DeviceIds : smart_battery_details(1, device_id)
    \/ \E device_id \in DeviceIds, start_date \in Dates :
          smart_battery_sessions(1, device_id, start_date, start_date)
    \/ close(1)
    \/ __aexit__(1)
    \/ /\ calls[1].pc = "awaiting"
       /\ \E reply \in OpReplies, deser \in Deser : resume(1, reply, deser)
    \/ collect(1)

Spec == Init /\ [][Next]_vars

\* one caller of the request pipeline itself
NextQuery ==
    \/ \E extra_headers \in ExtraHeaders : query_call(1, extra_headers)
    \/ /\ calls[1].pc = "awaiting"
       /\ \E reply \in QueryReplies : resume(1, reply, "ok")
    \/ collect(1)

SpecQuery == Init /\ [][NextQuery]_vars

(***************************************************************************)
(* Overlapping calls.  Each caller starts one operation; a call runs from  *)
(* its start to the POST in one step and from the answer to its end in     *)
(* another, and the event loop runs the steps of different calls in any    *)
(* order.                                                                  *)
(***************************************************************************)
\* the answers to the POSTs of overlapping calls
OverlapReplies ==
    {[kind |-> "timeout"]}
    \cup {[kind |-> "http", status |-> 200, body |-> b] :
            b \in {Envelope(LoginData, Absent), Envelope(RenewData, Absent),
                   Envelope(OtherRenewData, Absent),
                   Envelope(None, List(<<[message |-> PasswordInvalid]>>))}}

InitOverlap ==
    /\ \E auth_token \in AuthTokens, refresh_token \in RefreshTokens :
         __init__(None, auth_token, refresh_token)
    /\ NoClassifierRun
    /\ NoQueryObjects

NextOverlap ==
    \/ \E c \in CallIds : login(c, "u", "p")
    \/ \E c \in CallIds : renew_token(c)
    \/ \E c \in CallIds, start_date \in Dates : prices(c, start_date, start_date)
    \/ \E c \in CallIds :
          /\ calls[c].pc = "awaiting"
          /\ \E reply \in OverlapReplies : resume(c, reply, "ok")

SpecOverlap == InitOverlap /\ [][NextOverlap]_vars

(***************************************************************************)
(* The classifier on its own: _handle_errors applied to one response.      *)
(***************************************************************************)
ClassifierInputs == Envelopes({Absent, FullData}, MaxErrors)

InitErrors ==
    /\ __init__(None, NULL, NULL)
    /\ response \in ClassifierInputs
    /\ outcome = Pending
    /\ NoQueryObjects

classify ==
    /\ outcome = Pending
    /\ outcome' = _handle_errors(response)
    /\ UNCHANGED <<response, clientVars, queryVars>>

SpecErrors == InitErrors /\ [][classify]_vars

(***************************************************************************)
(* Query objects on their own.  A dict is an object: heap maps its address *)
(* to its content, and a FrankEnergieQuery holds the address of the dict   *)
(* it was given.  to_dict builds a new outer dict whose "variables" member *)
(* is that same address; sanitize_query writes through it.                 *)
(***************************************************************************)
Mask == "****"
VariableKeys == {"email", "password", "siteReference"}
VariableValues == {"secret", Mask}
VariableDicts == UNION {[keys -> VariableValues] : keys \in SUBSET VariableKeys}

\* the JSON text of a dict returned by to_dict, as json= serialises it
serialize(d) ==
    [query |-> d.query, operationName |-> d.operationName, variables |-> heap[d.variables]]

InitSanitize ==
    /\ __init__(None, NULL, NULL)
    /\ NoClassifierRun
    /\ heap = EmptyDict /\ query = None /\ sanitized = None /\ payload = None

\* query = FrankEnergieQuery(text, name, variables), variables a dict, a list
\* or None
construct(variables) ==
    /\ query = None
    /\ IF variables # None /\ IsList(variables)
       THEN /\ query' = [exc |-> "TypeError", given |-> variables]
            /\ heap' = heap
       ELSE /\ heap' = (0 :> IF variables = None THEN EmptyDict ELSE variables)
            /\ query' = [exc |-> NoExc, given |-> variables,
                         obj |-> [query |-> "LOGIN_QUERY", operation_name |-> "Login",
                                  variables |-> 0]]
    /\ UNCHANGED <<sanitized, payload, clientVars, errorVars>>

\* sanitize_query(query)
sanitize_query ==
    /\ query # None /\ query.exc = NoExc
    /\ sanitized = None
    /\ LET sanitized_query == to_dict(query.obj) IN
       /\ heap' = IF "password" \in DOMAIN heap[sanitized_query.variables]
                  THEN [heap EXCEPT ![sanitized_query.variables] =
                                       update(@, [password |-> Mask])]
                  ELSE heap
       /\ sanitized' = sanitized_query
    /\ UNCHANGED <<query, payload, clientVars, errorVars>>

\* payload = query.to_dict(), then sent as the JSON body
post_payload ==
    /\ query # None /\ query.exc = NoExc
    /\ payload' = [json |-> serialize(to_dict(query.obj)),
                   after_sanitize |-> sanitized # None]
    /\ UNCHANGED <<heap, query, sanitized, clientVars, errorVars>>

NextSanitize ==
    \/ \E variables \in VariableDicts \cup {None, List(<<>>)} : construct(variables)
    \/ sanitize_query
    \/ post_payload

SpecSanitize == InitSanitize /\ [][NextSanitize]_vars

(***************************************************************************)
(* The properties.                                                         *)
(***************************************************************************)
\* the classifier table of the specification: the exception a message stands
\* for, NoExc for a message that is swallowed or only logged
TableException(message) ==
    CASE message \in {PasswordInvalid, AuthNotAuthorised, GraphqlValidation,
                      NotSupportedInCountry} -> "AuthException"
      [] message = AuthRequired -> "AuthRequiredException"
      [] message = SmartTradingNotEnabled -> "SmartTradingNotEnabledException"
      [] message = SmartChargingNotEnabled -> "SmartChargingNotEnabledException"
      [] startswith(message, NoConnections) -> "AuthException"
      [] OTHER -> NoExc

Swallowed(message) == startswith(message, NoMarketprices)

Done(c) == calls[c].pc = "done"
Sent(c) == calls[c].pc = "awaiting" \/ (Done(c) /\ calls[c].posted)
Answered(c) == Done(c) /\ calls[c].posted
Authenticated(auth) == auth # None /\ auth.authToken # NULL

\* a 2xx answer whose body parsed to a dict
HasEnvelope(c) ==
    /\ Answered(c)
    /\ calls[c].reply.kind = "http"
    /\ calls[c].reply.status \in 200..299
    /\ calls[c].reply.body \notin {None, Malformed}

\* the errors array of a dict, as a sequence; empty when there is none
ErrorsOf(body) ==
    IF truthy(body) /\ truthy(get(body, "errors")) THEN body["errors"].items ELSE <<>>

AllHaveMessages(errors) == \A i \in 1..Len(errors) : "message" \in DOMAIN errors[i]

\* C1: a non-2xx answer to the POST makes _query raise the exception mapped to
\* the status: 401 AuthRequiredException, 403 AuthException, 400
\* RequestException, 500 AuthException, any other AuthException; a 401 never
\* ends as NetworkError.
C1_StatusRaisesMappedException ==
    \A c \in CallIds :
        (/\ Answered(c)
         /\ calls[c].reply.kind = "http"
         /\ calls[c].reply.status \notin 200..299)
        => /\ calls[c].q.exc =
                (CASE calls[c].reply.status = 401 -> "AuthRequiredException"
                   [] calls[c].reply.status = 403 -> "AuthException"
                   [] calls[c].reply.status = 400 -> "RequestException"
                   [] calls[c].reply.status = 500 -> "AuthException"
                   [] OTHER -> "AuthException")
           /\ (calls[c].reply.status = 401 => calls[c].q.exc # "NetworkError")

CredentialOps ==
    {"renew_token", "meter_readings", "month_summary", "enode_chargers", "invoices",
     "me", "UserSites", "user_country", "user", "user_prices",
     "period_usage_and_costs", "smart_batteries", "smart_battery_details",
     "smart_battery_sessions"}

ValidArgs(args) ==
    \A k \in DOMAIN args \cap {"username", "password", "site_reference", "device_id"} :
        args[k] # ""

\* C2: an operation that requires credentials, called with valid arguments on
\* a client that is not authenticated (no Credentials, or a null access
\* token), raises AuthRequiredException and issues no POST.
C2_UnauthenticatedRaisesBeforePost ==
    \A c \in CallIds :
        (/\ calls[c].pc # "idle"
         /\ calls[c].op \in CredentialOps
         /\ ValidArgs(calls[c].args)
         /\ ~Authenticated(calls[c].before))
        => /\ Done(c)
           /\ ~calls[c].posted
           /\ calls[c].exc = "AuthRequiredException"

\* the entries that end the walk of _handle_errors: those that raise and, as
\* the code has it, those that are swallowed
Raising(errors) == {i \in 1..Len(errors) : TableException(errors[i]["message"]) # NoExc}
Stopping(errors) ==
    {i \in 1..Len(errors) :
        TableException(errors[i]["message"]) # NoExc \/ Swallowed(errors[i]["message"])}
First(S) == CHOOSE i \in S : \A j \in S : i <= j

\* C3 as claimed: an entry that is swallowed or only logged does not stop
\* classification; when some entry carries a raising message, the exception
\* of the first such entry is raised.
C3_SwallowedEntryDoesNotStop ==
    LET errors == ErrorsOf(response) IN
    (outcome # Pending /\ AllHaveMessages(errors) /\ Raising(errors) # {})
    => outcome = TableException(errors[First(Raising(errors))]["message"])

\* C3 as amended: _handle_errors walks the errors array in array order; an
\* entry that is only logged does not stop classification, an entry with the
\* 'No marketprices found for segment' prefix ends it with a normal return.
\* So the exception of the first raising entry is raised when no such
\* swallowed entry precedes it, and otherwise the method returns normally.
C3_FirstStoppingEntryDecides ==
    LET errors == ErrorsOf(response) IN
    (outcome # Pending /\ AllHaveMessages(errors))
    => outcome = IF Stopping(errors) = {} THEN NoExc
                 ELSE TableException(errors[First(Stopping(errors))]["message"])

\* a logged entry followed by a raising one has raised the latter's exception
C3_Witness ==
    LET errors == ErrorsOf(response) IN
    /\ outcome = "AuthRequiredException"
    /\ Len(errors) = 2
    /\ errors[1] = [message |-> BaseNietAanwezig]
    /\ errors[2] = [message |-> AuthRequired]

\* C4: after an explicit shutdown (close, or leaving the async context
\* manager) a session the client created itself is closed, and a session
\* supplied by the caller is never closed by the client.
C4_ShutdownClosesOwnSession ==
    /\ \A s \in sessions : s.by = "caller" => ~s.closed
    /\ \A c \in CallIds :
        (Done(c) /\ calls[c].op \in {"close", "__aexit__"})
        => \A s \in sessions : s.by = "client" => s.closed

\* the envelope returned to login carries data with login tokens
LoginTokens(call) ==
    IF /\ call.pc = "done" /\ call.op = "login" /\ call.posted
       /\ call.q.exc = NoExc
       /\ "data" \in DOMAIN call.q.value
       /\ truthy(call.q.value["data"])
       /\ "login" \in DOMAIN call.q.value["data"]
    THEN call.q.value["data"]["login"]
    ELSE None

ExtraOf(call) ==
    IF "extra_headers" \in DOMAIN call.args /\ truthy(call.args["extra_headers"])
    THEN call.args["extra_headers"]
    ELSE EmptyDict

\* C6 as claimed: every request carries Content-Type and Accept
\* application/json, carries Authorization exactly when the client holds a
\* non-null access token or the extra headers supply one, and carries the
\* caller's value for every key of the extra headers.
C6_HeadersAsClaimed ==
    \A c \in CallIds :
        (Sent(c) /\ calls[c].op = "_query")
        => LET headers == calls[c].headers
               extra == ExtraOf(calls[c])
           IN /\ "Content-Type" \in DOMAIN headers
              /\ headers["Content-Type"] = ApplicationJson
              /\ "Accept" \in DOMAIN headers
              /\ headers["Accept"] = ApplicationJson
              /\ "Authorization" \in DOMAIN headers
                    <=> (Authenticated(calls[c].before)
                         \/ "Authorization" \in DOMAIN extra)
              /\ \A k \in DOMAIN extra : k \in DOMAIN headers /\ headers[k] = extra[k]

\* C6 as amended: every request carries Content-Type and Accept, set to
\* application/json unless the caller's extra headers name that key; it
\* carries Authorization exactly when the client holds a non-null access
\* token or the extra headers supply one; and for every key of the extra
\* headers the transmitted value is the caller's.
C6_HeadersUnlessOverridden ==
    \A c \in CallIds :
        (Sent(c) /\ calls[c].op = "_query")
        => LET headers == calls[c].headers
               extra == ExtraOf(calls[c])
           IN /\ \A k \in {"Content-Type", "Accept"} :
                    /\ k \in DOMAIN headers
                    /\ k \notin DOMAIN extra => headers[k] = ApplicationJson
              /\ "Authorization" \in DOMAIN headers
                    <=> (Authenticated(calls[c].before)
                         \/ "Authorization" \in DOMAIN extra)
              /\ (Authenticated(calls[c].before) /\ "Authorization" \notin DOMAIN extra)
                    => headers["Authorization"] = Bearer(calls[c].before.authToken)
              /\ \A k \in DOMAIN extra : k \in DOMAIN headers /\ headers[k] = extra[k]

\* an authenticated client has sent the caller's Authorization, not its own
C6_Witness ==
    \E c \in CallIds :
        /\ Sent(c) /\ calls[c].op = "_query"
        /\ Authenticated(calls[c].before)
        /\ "Authorization" \in DOMAIN ExtraOf(calls[c])
        /\ calls[c].headers["Authorization"] = Bearer("X")

\* C7: when the first entry of the errors array of the parsed body carries a
\* raising message of the classifier table, _query raises exactly the
\* exception of that message and returns no envelope.
C7_FirstRaisingMessageRaises ==
    \A c \in CallIds :
        (/\ HasEnvelope(c)
         /\ ErrorsOf(calls[c].reply.body) # <<>>
         /\ "message" \in DOMAIN ErrorsOf(calls[c].reply.body)[1]
         /\ TableException(ErrorsOf(calls[c].reply.body)[1]["message"]) # NoExc)
        => /\ calls[c].q.exc = TableException(ErrorsOf(calls[c].reply.body)[1]["message"])
           /\ calls[c].q.value = None
           /\ calls[c].op = "_query" => /\ calls[c].exc = calls[c].q.exc
                                        /\ calls[c].value = None

\* a raising first entry, followed by another entry, has raised its exception
C7_Witness ==
    \E c \in CallIds :
        /\ HasEnvelope(c)
        /\ Len(ErrorsOf(calls[c].reply.body)) = 2
        /\ ErrorsOf(calls[c].reply.body)[1] = [message |-> SmartTradingNotEnabled]
        /\ calls[c].exc = "SmartTradingNotEnabledException"

\* every entry carries a message that is swallowed or only logged
AllNonRaising(errors) ==
    \A i \in 1..Len(errors) :
        "message" \in DOMAIN errors[i] /\ TableException(errors[i]["message"]) = NoExc

\* C8: for an envelope that is empty, has no errors array, or whose entries
\* all carry non-raising messages, _handle_errors returns normally and _query
\* returns the parsed envelope unchanged.
C8_NonRaisingEnvelopeReturned ==
    \A c \in CallIds :
        (HasEnvelope(c) /\ AllNonRaising(ErrorsOf(calls[c].reply.body)))
        => /\ _handle_errors(calls[c].reply.body) = NoExc
           /\ calls[c].q.exc = NoExc
           /\ calls[c].q.value = calls[c].reply.body
           /\ calls[c].op = "_query" => /\ calls[c].exc = NoExc
                                        /\ calls[c].value = calls[c].reply.body

\* an envelope with an unrecognized and a logged message came back as it was
C8_Witness ==
    \E c \in CallIds :
        /\ HasEnvelope(c)
        /\ ErrorsOf(calls[c].reply.body) =
              <<[message |-> <<"some-other-error">>], [message |-> BaseNietAanwezig]>>
        /\ calls[c].exc = NoExc
        /\ calls[c].value = calls[c].reply.body

\* C9: for an authenticated client, enode_chargers and smart_batteries never
\* propagate a failure raised by the error classifier or by
\* deserialization: they return {} and SmartBatteries([]) respectively.
C9_ListingsNeverPropagate ==
    \A c \in CallIds :
        (/\ Answered(c)
         /\ calls[c].op \in {"enode_chargers", "smart_batteries"}
         /\ Authenticated(calls[c].before)
         /\ calls[c].q.classified)
        => /\ calls[c].exc = NoExc
           /\ calls[c].q.exc # NoExc
                => calls[c].value = IF calls[c].op = "enode_chargers" THEN EmptyDict
                                    ELSE SmartBatteries(<<>>)

\* C10: for a query whose variables contain a password key, sanitize_query
\* returns a form whose password is the mask, and a to_dict() taken after
\* sanitize_query still carries the original password.
C10_SanitizeLeavesPayloadIntact ==
    (/\ sanitized # None
     /\ query.given # None
     /\ "password" \in DOMAIN query.given)
    => /\ serialize(sanitized).variables["password"] = Mask
       /\ (payload # None /\ payload.after_sanitize)
            => payload.json.variables["password"] = query.given["password"]

\* C11: every invocation of _query issues at most one POST whatever its
\* outcome, and when that POST times out or fails with a connection error the
\* call fails with NetworkError.
C11_OnePostAndNetworkError ==
    \A c \in CallIds :
        /\ calls[c].pc # "idle" => calls[c].posts <= 1
        /\ Sent(c) => calls[c].posts = 1
        /\ (Answered(c) /\ calls[c].reply.kind \in {"timeout", "error"})
           => /\ calls[c].q.exc = "NetworkError"
              /\ calls[c].exc = "NetworkError"
              /\ calls[c].posts = 1

\* a POST that timed out has ended the call with NetworkError after one POST
C11_Witness ==
    \E c \in CallIds :
        /\ Answered(c)
        /\ calls[c].reply.kind = "timeout"
        /\ calls[c].exc = "NetworkError"
        /\ calls[c].posts = 1

\* the answer to the POST is an HTTP response whose body parsed to a falsy value
EmptyBody(c) ==
    /\ Answered(c)
    /\ calls[c].reply.kind = "http"
    /\ calls[c].reply.body # Malformed
    /\ ~truthy(calls[c].reply.body)

\* the falsy parsed body was answered with an empty mapping, the classifier
\* not run, nothing raised
ReturnsEmptyMapping(c) ==
    /\ calls[c].q.exc = NoExc
    /\ calls[c].q.value = EmptyDict
    /\ calls[c].q.parsed
    /\ ~calls[c].q.classified

MalformedArguments(call) ==
    \/ /\ call.op = "login"
       /\ call.args["username"] = "" \/ call.args["password"] = ""
    \/ /\ call.op = "period_usage_and_costs"
       /\ \/ call.args["site_reference"] = ""
          \/ _validate_start_date_format(call.args["start_date"]) # NoExc
    \/ /\ call.op \in {"smart_battery_details", "smart_battery_sessions"}
       /\ call.args["device_id"] = ""

\* C13: on a client that holds Credentials (login: on any client), login with
\* an empty username or password, period_usage_and_costs with an empty
\* site_reference or a start_date that is malformed or in the future, and
\* smart_battery_details and smart_battery_sessions with an empty device_id
\* raise ValueError, issue no POST and leave the stored Credentials as they
\* were.
C13_MalformedArgumentsRaiseValueError ==
    \A c \in CallIds :
        (/\ calls[c].pc # "idle"
         /\ MalformedArguments(calls[c])
         /\ calls[c].op = "login" \/ calls[c].before # None)
        => /\ Done(c)
           /\ ~calls[c].posted
           /\ calls[c].exc = "ValueError"
           /\ _auth = calls[c].before

\* the sessions the client created itself
Created == {s \in sessions : s.by = "client"}

\* C14: for a client constructed without a session, under every interleaving
\* of overlapping operation calls exactly one transport session is ever
\* created: no call of _ensure_session replaces a session that exists, so
\* every call that reached its POST used the one session the client holds.
C14_OneSessionCreated ==
    /\ Cardinality(Created) <= 1
    /\ \A s \in Created : _session # None /\ _session.id = s.id
    /\ \A c \in CallIds :
          Sent(c) => /\ Cardinality(Created) = 1
                     /\ calls[c].session = _session.id

\* two calls are waiting for their answers at once, on the one session
C14_Witness ==
    \E c, d \in CallIds :
        /\ c # d
        /\ calls[c].pc = "awaiting" /\ calls[d].pc = "awaiting"
        /\ calls[c].session = calls[d].session
        /\ Cardinality(Created) = 1

\* C15: when login or renew_token ends by raising (argument or precondition
\* failure, transport or status failure, a raising classifier message), the
\* stored Credentials are what they were before the call; the Credentials
\* change only at the end of a login or renew_token whose pipeline returned
\* an envelope.
C15_RaisingLeavesCredentials ==
    [][/\ \A c \in CallIds :
            (/\ calls[c].pc # "done" /\ calls'[c].pc = "done"
             /\ calls'[c].op \in {"login", "renew_token"}
             /\ calls'[c].exc # NoExc)
            => /\ _auth' = _auth
               /\ _auth' = calls'[c].before
       /\ _auth' # _auth
            => \E d \in CallIds :
                 /\ calls[d].pc = "awaiting" /\ calls'[d].pc = "done"
                 /\ calls'[d].op \in {"login", "renew_token"}
                 /\ calls'[d].q.exc = NoExc
                 /\ calls'[d].exc = NoExc
      ]_vars

\* a login answered with 'user-error:password-invalid' has raised, and the
\* client still holds the credentials it was constructed with
C15_Witness ==
    \E c \in CallIds :
        /\ HasEnvelope(c)
        /\ calls[c].op = "login"
        /\ ErrorsOf(calls[c].reply.body) = <<[message |-> PasswordInvalid]>>
        /\ calls[c].exc = "AuthException"
        /\ _auth # None
        /\ _auth = calls[c].before

\* a renew_token call that has sent its POST
Renewal(c) == Sent(c) /\ calls[c].op = "renew_token"

\* when a call ended, later than now for a call still waiting
EndOf(c) == IF Done(c) THEN calls[c].ended ELSE clock + 1

\* each of the two calls started before the other ended
Overlapping(c, d) == calls[c].started < EndOf(d) /\ calls[d].started < EndOf(c)

PairOf(auth) == TokenPair(auth.authToken, auth.refreshToken)

\* the token pair of the renewal response a call was answered with
RenewTokens(c) ==
    IF /\ HasEnvelope(c)
       /\ truthy(get(calls[c].reply.body, "data"))
       /\ "renewToken" \in DOMAIN calls[c].reply.body["data"]
    THEN calls[c].reply.body["data"]["renewToken"]
    ELSE None

\* C16: overlapping renew_token calls are not serialized.  Each transmits the
\* authToken/refreshToken pair stored when it started, so two calls that
\* start with no change of the Credentials between them transmit the same
\* old pair; and once both have completed successfully, with no call ended
\* after them, the stored Credentials are those of the response processed
\* last, whichever call was started first.
C16_LastProcessedRenewalWins ==
    \A c, d \in CallIds :
        (c # d /\ Renewal(c) /\ Renewal(d) /\ Overlapping(c, d))
        => /\ calls[c].json.variables = PairOf(calls[c].before)
           /\ calls[c].before = calls[d].before
                => calls[c].json.variables = calls[d].json.variables
           /\ (/\ Done(c) /\ Done(d)
               /\ calls[c].exc = NoExc /\ calls[d].exc = NoExc
               /\ calls[c].ended < calls[d].ended
               /\ \A e \in CallIds : Done(e) => calls[e].ended <= calls[d].ended)
              => /\ _auth = calls[d].value
                 /\ RenewTokens(d) # None => PairOf(_auth) = RenewTokens(d)

\* two renewals sent the same old pair; the one started first was answered
\* last, and its response's pair is the one stored
C16_Witness ==
    \E c, d \in CallIds :
        /\ Renewal(c) /\ Renewal(d)
        /\ Done(c) /\ Done(d)
        /\ calls[c].started < calls[d].started
        /\ calls[d].started < calls[c].ended
        /\ calls[d].ended < calls[c].ended
        /\ calls[c].json.variables = calls[d].json.variables
        /\ RenewTokens(c) = TokenPair("C", "T")
        /\ RenewTokens(d) = TokenPair("D", "U")
        /\ PairOf(_auth) = TokenPair("C", "T")

====
